---- MODULE Spec2Model ----
(***************************************************************************)
(* The breach dashboard: four Streamlit scripts (app.py, Home.py and the   *)
(* two pages) that each load breaches.json, apply the sidebar filters and  *)
(* compute the aggregations shown on the page.  Every widget change reruns *)
(* the whole script of the current page.                                   *)
(***************************************************************************)
EXTENDS Integers, Sequences, FiniteSets, TLC

VARIABLES
    source,                   \* the records of breaches.json
    current_year,             \* datetime.now().year
    cache,                    \* st.cache_data: the stored result of each load_data
    parses,                   \* times breaches.json was parsed in this process
    page,                     \* the script that is running
    nInteractions,            \* widget changes since the page was opened
    df,                       \* load_data(): the record table
    data_classes_df,          \* load_data(): the exploded class-row table
    date_range,               \* st.sidebar.date_input
    verification_status,      \* st.sidebar.multiselect
    sensitivity_status,       \* st.sidebar.multiselect
    breach_size,              \* st.sidebar.multiselect
    selected_data_classes,    \* st.sidebar.multiselect (app.py only)
    filtered_df,              \* the filtered record view
    filtered_data_classes_df, \* the filtered class-row view
    error,                    \* the exception that ended the run, or "none"
    computed,                 \* the results the run got to before it ended
    verified_percentage,      \* <<numerator, denominator>>
    data_class_counts,        \* value_counts() of the filtered class rows
    top_data_classes,         \* data_class_counts.head(10)
    timeline_data,            \* app.py: breaches and accounts per month
    yearly_breaches,          \* Timeline: breaches per year
    yearly_avg,               \* Timeline: <<numerator, denominator>>
    severity_df,              \* app.py: the filtered view with its scores
    high_severity,            \* app.py: names of the rows of category High
    high_severity_table,      \* app.py: names the high-severity table lists
    most_common_data_class,   \* insight
    largest_breach,           \* insight
    largest_breach_count,     \* insight
    recent_count,             \* insight: breaches of the last two years
    previous_count,           \* insight: breaches of the two years before
    trend_text,               \* insight
    top_breaches,             \* nlargest(10, 'PwnCount'): names in listed order
    size_distribution,        \* app.py: rows of the size-distribution table
    sensitive_class_counts,   \* app.py: rows of the sensitive-class table
    search_term,              \* st.text_input (app.py only)
    search_matches,           \* app.py: names of the concatenated matches
    search_results            \* app.py: names the search lists

criteria == <<date_range, verification_status, sensitivity_status, breach_size,
              selected_data_classes, search_term>>

tables == <<df, data_classes_df, filtered_df, filtered_data_classes_df>>

results == <<error, computed, verified_percentage, data_class_counts, top_data_classes,
             timeline_data, yearly_breaches, yearly_avg, severity_df, high_severity,
             high_severity_table, most_common_data_class, largest_breach,
             largest_breach_count, recent_count, previous_count, trend_text,
             top_breaches, size_distribution, sensitive_class_counts,
             search_matches, search_results>>

store == <<cache, parses>>

vars == <<source, current_year, store, page, nInteractions, criteria, tables, results>>

----------------------------------------------------------------------------
(* Bounds of the model *)

MaxRecords == 2         \* longest table built from SampleRecords
SlotsPerDay == 2        \* times of day per calendar day
DaysPerYear == 2        \* calendar days per year
MaxInteractions == 2    \* widget changes per page visit
MaxParses == 3          \* parses of breaches.json the model follows

(* Values of the program *)

Inf == 2147483647       \* float('inf'), above every PwnCount
HeadLimit == 10         \* head(10)
NaN == "NaN"            \* the pandas missing value
NaT == "NaT"            \* the pandas missing timestamp

Pages == {"app", "Home", "Timeline", "DataClasses"}

----------------------------------------------------------------------------
(* Sequence helpers *)

Range(s) == {s[i] : i \in DOMAIN s}

RECURSIVE unique(_)
unique(s) ==
    IF s = <<>> THEN <<>>
    ELSE LET u == unique(SubSeq(s, 1, Len(s) - 1))
         IN IF s[Len(s)] \in Range(u) THEN u ELSE Append(u, s[Len(s)])

Column(t, c) == [i \in DOMAIN t |-> t[i][c]]

dropna(s) == SelectSeq(s, LAMBDA x : x # NaN)

----------------------------------------------------------------------------
(* load_data *)

date(ts) == ts \div SlotsPerDay

year(ts) == (date(ts) - 1) \div DaysPerYear

\* The calendar of the model has months of one day.
month(ts) == ((date(ts) - 1) % DaysPerYear) + 1

\* dt.strftime('%Y-%m'): the year and the month the text spells.
strftime_Ym(ts) == <<year(ts), month(ts)>>

\* The texts pd.to_datetime can read, each with the Timestamp it gives.
iso8601 == ("2013-12-04T00:00:00Z" :> "2013-12-04 00:00:00+00:00")

\* A text that is no date makes pd.to_datetime raise; a missing value does not.
to_datetime_raises(col) ==
    \E i \in DOMAIN col : col[i] # NaN /\ col[i] \notin DOMAIN iso8601

to_datetime(v) == IF v = NaN THEN NaT ELSE iso8601[v]

cut_code(x, bins) ==
    IF \E i \in 1..(Len(bins) - 1) : bins[i] < x /\ x <= bins[i + 1]
    THEN CHOOSE i \in 1..(Len(bins) - 1) : bins[i] < x /\ x <= bins[i + 1]
    ELSE 0

cut(x, bins, labels) ==
    IF cut_code(x, bins) = 0 THEN NaN ELSE labels[cut_code(x, bins)]

size_bins == <<0, 10000, 1000000, 50000000, Inf>>

size_labels == <<"Small (<10k)", "Medium (10k-1M)", "Large (1M-50M)", "Massive (>50M)">>

\* astype(str) that leaves a missing value missing.
astype_str_keeps_missing(v) == v

astype_str(v) == IF v = NaN THEN "nan" ELSE v

BreachSizeCategory(p, pwnCount) ==
    IF p = "app"
    THEN cut(pwnCount, size_bins, size_labels)
    ELSE astype_str(cut(pwnCount, size_bins, size_labels))

LoadRow(p, r) ==
    [Name |-> r.Name,
     Domain |-> r.Domain,
     BreachDate |-> r.BreachDate,
     AddedDate |-> IF p = "DataClasses" THEN r.AddedDate ELSE to_datetime(r.AddedDate),
     PwnCount |-> r.PwnCount,
     IsVerified |-> r.IsVerified,
     IsSensitive |-> r.IsSensitive,
     DataClasses |-> r.DataClasses,
     BreachYear |-> year(r.BreachDate),
     BreachYearMonth |-> strftime_Ym(r.BreachDate),
     BreachSizeCategory |-> BreachSizeCategory(p, r.PwnCount)]

ExplodeRow(r) ==
    IF r.DataClasses = <<>>
    THEN << [r EXCEPT !.DataClasses = NaN] >>
    ELSE [k \in 1..Len(r.DataClasses) |-> [r EXCEPT !.DataClasses = r.DataClasses[k]]]

RECURSIVE explode(_)
explode(t) == IF t = <<>> THEN <<>> ELSE ExplodeRow(Head(t)) \o explode(Tail(t))

\* The Data Classes page converts BreachDate only.
load_data_raises(p, raw) ==
    p # "DataClasses" /\ to_datetime_raises(Column(raw, "AddedDate"))

load_data(p, raw) ==
    IF load_data_raises(p, raw)
    THEN [df |-> <<>>, data_classes_df |-> <<>>, error |-> "DateParseError"]
    ELSE LET t == [i \in DOMAIN raw |-> LoadRow(p, raw[i])]
         IN [df |-> t,
             data_classes_df |-> IF p = "Timeline" THEN <<>> ELSE explode(t),
             error |-> "none"]

\* st.cache_data: a call of the load_data of page p is answered from the
\* cache c when c holds a result of that function, else the file is parsed.
cached_load_data(p, c, raw) == IF p \in DOMAIN c THEN c[p] ELSE load_data(p, raw)

\* A result is stored when the function returns; an exception stores nothing.
cache_after(p, c, loaded) ==
    IF p \in DOMAIN c \/ loaded.error # "none" THEN c ELSE c @@ (p :> loaded)

parses_after(p, c, n) == IF p \in DOMAIN c THEN n ELSE n + 1

----------------------------------------------------------------------------
(* Sidebar filters *)

\* The range compared against the timestamp, with the end date at midnight.
date_filter_timestamp(t, dr) ==
    IF Len(dr) = 2
    THEN SelectSeq(t, LAMBDA r : r.BreachDate >= dr[1] * SlotsPerDay
                                 /\ r.BreachDate <= dr[2] * SlotsPerDay)
    ELSE t

\* The range put in order before it is applied.
date_filter_ordered(t, dr) ==
    IF Len(dr) = 2
    THEN SelectSeq(t, LAMBDA r :
             \/ date(r.BreachDate) >= dr[1] /\ date(r.BreachDate) <= dr[2]
             \/ date(r.BreachDate) >= dr[2] /\ date(r.BreachDate) <= dr[1])
    ELSE t

\* A single date taken as the start of an open range.
date_filter_from_start(t, dr) ==
    IF Len(dr) = 2
    THEN SelectSeq(t, LAMBDA r : date(r.BreachDate) >= dr[1] /\ date(r.BreachDate) <= dr[2])
    ELSE IF Len(dr) = 1 THEN SelectSeq(t, LAMBDA r : date(r.BreachDate) >= dr[1])
    ELSE t

date_filter(t, dr) ==
    IF Len(dr) = 2
    THEN SelectSeq(t, LAMBDA r : date(r.BreachDate) >= dr[1] /\ date(r.BreachDate) <= dr[2])
    ELSE t

verification_filter(t, vs) ==
    IF vs # {}
    THEN IF "Verified" \in vs /\ "Unverified" \in vs THEN t
         ELSE IF "Verified" \in vs THEN SelectSeq(t, LAMBDA r : r.IsVerified = TRUE)
         ELSE IF "Unverified" \in vs THEN SelectSeq(t, LAMBDA r : r.IsVerified = FALSE)
         ELSE t
    ELSE t

\* A filter that keeps the first matching record only.
sensitivity_filter_first(t, ss) ==
    LET kept == IF ss = {"Sensitive"} THEN SelectSeq(t, LAMBDA r : r.IsSensitive = TRUE)
                ELSE IF ss = {"Non-Sensitive"}
                THEN SelectSeq(t, LAMBDA r : r.IsSensitive = FALSE)
                ELSE t
    IN IF ss \in {{"Sensitive"}, {"Non-Sensitive"}} /\ kept # <<>>
       THEN <<Head(kept)>> ELSE kept

sensitivity_filter(t, ss) ==
    IF ss # {}
    THEN IF "Sensitive" \in ss /\ "Non-Sensitive" \in ss THEN t
         ELSE IF "Sensitive" \in ss THEN SelectSeq(t, LAMBDA r : r.IsSensitive = TRUE)
         ELSE IF "Non-Sensitive" \in ss THEN SelectSeq(t, LAMBDA r : r.IsSensitive = FALSE)
         ELSE t
    ELSE t

\* The size filter without its guard for an empty selection.
size_filter_unguarded(t, bs) == SelectSeq(t, LAMBDA r : r.BreachSizeCategory \in bs)

size_filter(t, bs) ==
    IF bs # {}
    THEN SelectSeq(t, LAMBDA r : r.BreachSizeCategory \in bs)
    ELSE t

data_class_filter(t, dcdf, sel) ==
    IF sel # {}
    THEN LET rows == SelectSeq(dcdf, LAMBDA c : c.DataClasses \in sel)
         IN SelectSeq(t, LAMBDA r : r.Name \in Range(Column(rows, "Name")))
    ELSE t

sidebar_filters(p, t, dcdf, dr, vs, ss, bs, sel) ==
    LET f1 == date_filter(t, dr)
        f2 == IF p \in {"app", "Home"} THEN verification_filter(f1, vs) ELSE f1
        f3 == IF p \in {"app", "Home"} THEN sensitivity_filter(f2, ss) ELSE f2
        f4 == IF p # "DataClasses" THEN size_filter(f3, bs) ELSE f3
    IN IF p = "app" THEN data_class_filter(f4, dcdf, sel) ELSE f4

\* The class rows without the statement that restricts them to the view.
class_rows_of_unfiltered(dcdf, fdf) == dcdf

class_rows_of(dcdf, fdf) ==
    SelectSeq(dcdf, LAMBDA c : c.Name \in Range(Column(fdf, "Name")))

----------------------------------------------------------------------------
(* The widgets: what each offers and its default *)

SetMin(S) == CHOOSE x \in S : \A y \in S : x <= y

SetMax(S) == CHOOSE x \in S : \A y \in S : x >= y

min_date(t) == SetMin({date(t[i].BreachDate) : i \in DOMAIN t})

max_date(t) == SetMax({date(t[i].BreachDate) : i \in DOMAIN t})

default_date_range(t) == <<min_date(t), max_date(t)>>

date_input(t) ==
    LET D == min_date(t)..max_date(t)
    IN {<<>>} \cup {<<s>> : s \in D} \cup {<<s, e>> : s \in D, e \in D}

verification_options == {"Verified", "Unverified"}

sensitivity_options == {"Sensitive", "Non-Sensitive"}

breach_size_options(p, t) ==
    IF p = "app"
    THEN Range(unique(Column(t, "BreachSizeCategory")))
    ELSE IF p = "DataClasses" THEN {}
    ELSE Range(unique(dropna(Column(t, "BreachSizeCategory"))))

all_data_classes(p, dcdf) ==
    IF p = "app" THEN Range(unique(Column(dcdf, "DataClasses"))) ELSE {}

----------------------------------------------------------------------------
(* The data sets the model loads *)

PwnCounts == {0, 1, 10000, 10001, 1000000, 1000001, 2000000, 50000000, 50000001}

ClassLists ==
    { <<>>,
      <<"Email addresses">>,
      <<"Passwords", "Usernames", "Credit cards">>,
      <<"Passwords", "Credit cards", "Phone numbers", "Dates of birth">> }

RawRecord(d, tod, n, v, s, c) ==
    [Name |-> "", Domain |-> "", BreachDate |-> d * SlotsPerDay + tod,
     AddedDate |-> "2013-12-04T00:00:00Z", PwnCount |-> n,
     IsVerified |-> v, IsSensitive |-> s, DataClasses |-> c]

\* Every PwnCount at and next to a bucket edge with every class list,
\* sensitive and not; the verification flag plays no part in what the
\* one-record tables are loaded for.
AllRecords ==
    { RawRecord(1, SlotsPerDay - 1, n, TRUE, s, c) :
        n \in PwnCounts, s \in BOOLEAN, c \in ClassLists }

\* The three breaches of the specification's scenario and one with no
\* affected accounts and no data classes.  BreachC is loaded in the long
\* tables and in the tables for the search box.
BreachA ==
    [RawRecord(1, 0, 5000, TRUE, FALSE, <<"Email addresses">>) EXCEPT !.Domain = "adobe.com"]

BreachB ==
    RawRecord(2, SlotsPerDay - 1, 2000000, FALSE, TRUE, <<"Passwords", "Email addresses">>)

BreachC ==
    [RawRecord(3, 0, 60000000, TRUE, TRUE, <<"Passwords">>)
        EXCEPT !.Domain = "passport.example"]

BreachZ == RawRecord(3, SlotsPerDay - 1, 0, FALSE, FALSE, <<>>)

SampleRecords == {BreachA, BreachB, BreachZ}

Injective(n, S) == {rs \in [1..n -> S] : \A i, j \in 1..n : rs[i] = rs[j] => i = j}

Named(rs) == [i \in DOMAIN rs |-> [rs[i] EXCEPT !.Name = ToString(i)]]

\* Tables of up to MaxRecords distinct sample breaches, in every order.
Sources ==
    UNION { { Named(rs) : rs \in Injective(n, SampleRecords) } : n \in 1..MaxRecords }

\* Tables of one record of every kind, and tables too long for a head(10):
\* BreachC throughout, and BreachA and BreachC in turn.
RecordSources ==
    { Named(<<r>>) : r \in AllRecords }
    \cup { Named([i \in 1..(HeadLimit + 1) |-> BreachC]),
           Named([i \in 1..(HeadLimit + 1) |-> IF i % 2 = 1 THEN BreachA ELSE BreachC]) }

----------------------------------------------------------------------------
(* Aggregations *)

Min(a, b) == IF a < b THEN a ELSE b

head(t, n) == SubSeq(t, 1, Min(n, Len(t)))

reverse(t) == [i \in DOMAIN t |-> t[Len(t) + 1 - i]]

\* Rows in descending order of column c, rows with equal values in their
\* original order.
RECURSIVE sort_values_desc(_, _)
sort_values_desc(t, c) ==
    IF t = <<>> THEN <<>>
    ELSE LET rest == sort_values_desc(SubSeq(t, 1, Len(t) - 1), c)
             x == t[Len(t)]
             k == Cardinality({j \in DOMAIN rest : rest[j][c] >= x[c]})
         IN SubSeq(rest, 1, k) \o <<x>> \o SubSeq(rest, k + 1, Len(rest))

\* The rows of a value_counts(): one per distinct value, missing values left out.
count_rows(col) ==
    LET vals == dropna(col)
    IN { [DataClass |-> k, Count |-> Cardinality({j \in DOMAIN vals : vals[j] = k})] :
           k \in Range(vals) }

\* The same rows as a table, in the order the values are first seen.
count_table(col) ==
    LET vals == dropna(col)
        keys == unique(vals)
    IN [i \in DOMAIN keys |->
           [DataClass |-> keys[i],
            Count |-> Cardinality({j \in DOMAIN vals : vals[j] = keys[i]})]]

\* value_counts() sorts by descending count with the default sort, which is
\* not stable: equal counts may come out in first-seen order, as a stable
\* sort leaves them, or in another order, of which the model takes the
\* reverse of the first-seen order.
value_counts(col) ==
    { sort_values_desc(count_table(col), "Count"),
      sort_values_desc(reverse(count_table(col)), "Count") }

RECURSIVE SumCount(_)
SumCount(rows) ==
    IF rows = {} THEN 0
    ELSE LET r == CHOOSE x \in rows : TRUE IN r.Count + SumCount(rows \ {r})

\* The missing value in a column of numbers.
NaNPercentage == -1

\* (count / total * 100).round(1), in tenths of a percent; 0 / 0 is missing.
Percentage(count, total) ==
    IF total = 0 THEN NaNPercentage
    ELSE LET q == (count * 1000) \div total
             r == (count * 1000) % total
         IN IF 2 * r < total THEN q
            ELSE IF 2 * r > total THEN q + 1
            ELSE IF q % 2 = 0 THEN q ELSE q + 1

with_Percentage(t, total) ==
    [i \in DOMAIN t |->
        [DataClass |-> t[i].DataClass, Count |-> t[i].Count,
         Percentage |-> Percentage(t[i].Count, total)]]

\* app.py and Home.py: the first ten rows with their share of those rows.
top_data_classes_of(counts) ==
    LET top == head(counts, HeadLimit)
    IN with_Percentage(top, SumCount(Range(top)))

\* The Data Classes page: every row with its share of the breaches in view.
data_class_counts_of(p, counts, fdf) ==
    IF p = "DataClasses" THEN with_Percentage(counts, Len(fdf)) ELSE counts

\* value_counts() of the categorical column lists every category, those
\* that do not occur with a count of 0.
size_distribution_of(fdf) ==
    LET rows == { [SizeCategory |-> size_labels[k],
                   Count |-> Cardinality({i \in DOMAIN fdf :
                                fdf[i].BreachSizeCategory = size_labels[k]})] :
                    k \in DOMAIN size_labels }
    IN { [SizeCategory |-> r.SizeCategory, Count |-> r.Count,
          Percentage |-> Percentage(r.Count, SumCount(rows))] : r \in rows }

\* value_counts().head(n): any n rows that no left-out row outnumbers.
head_by_count(rows, n) ==
    { S \in SUBSET rows :
        /\ Cardinality(S) = Min(n, Cardinality(rows))
        /\ \A a \in S : \A b \in rows \ S : a.Count >= b.Count }

sensitive_class_counts_of(fdf, dcdf) ==
    IF \E i \in DOMAIN fdf : fdf[i].IsSensitive
    THEN LET sensitive_breaches == SelectSeq(fdf, LAMBDA r : r.IsSensitive = TRUE)
             sensitive_data_classes ==
                 SelectSeq(dcdf, LAMBDA c : c.Name \in Range(Column(sensitive_breaches, "Name")))
         IN { { [DataClass |-> r.DataClass, Count |-> r.Count,
                 Percentage |-> Percentage(r.Count, SumCount(S))] : r \in S } :
                S \in head_by_count(count_rows(Column(sensitive_data_classes, "DataClasses")),
                                     HeadLimit) }
    ELSE {{}}

percentage_of(count, total) == IF total > 0 THEN <<count * 100, total>> ELSE <<0, 1>>

RECURSIVE sorted(_)
sorted(S) == IF S = {} THEN <<>> ELSE <<SetMin(S)>> \o sorted(S \ {SetMin(S)})

groupby_size(t, c) ==
    LET keys == sorted(Range(Column(t, c)))
    IN [i \in DOMAIN keys |->
           [Year |-> keys[i],
            Count |-> Cardinality({j \in DOMAIN t : t[j][c] = keys[i]})]]

RECURSIVE Sum(_)
Sum(col) == IF col = <<>> THEN 0 ELSE Head(col) + Sum(Tail(col))

\* pd.to_datetime of a '%Y-%m' text: the first instant of that month.
to_datetime_Ym(ym) == (ym[1] * DaysPerYear + ym[2]) * SlotsPerDay

\* An aggregation that keeps the largest PwnCount of each month.
groupby_agg_max(t) ==
    LET keys == Range(Column(t, "BreachYearMonth"))
        group(k) == SelectSeq(t, LAMBDA r : r.BreachYearMonth = k)
        rows == { [BreachYearMonth |-> to_datetime_Ym(k),
                   BreachCount |-> Len(group(k)),
                   TotalAffected |-> SetMax(Range(Column(group(k), "PwnCount")))] :
                  k \in keys }
        stamps == sorted({r.BreachYearMonth : r \in rows})
    IN [i \in DOMAIN stamps |-> CHOOSE r \in rows : r.BreachYearMonth = stamps[i]]

\* groupby('BreachYearMonth').agg(count of Name, sum of PwnCount), the key
\* parsed back into a timestamp and the rows sorted by it.
groupby_agg(t) ==
    LET keys == Range(Column(t, "BreachYearMonth"))
        group(k) == SelectSeq(t, LAMBDA r : r.BreachYearMonth = k)
        rows == { [BreachYearMonth |-> to_datetime_Ym(k),
                   BreachCount |-> Len(group(k)),
                   TotalAffected |-> Sum(Column(group(k), "PwnCount"))] :
                  k \in keys }
        stamps == sorted({r.BreachYearMonth : r \in rows})
    IN [i \in DOMAIN stamps |-> CHOOSE r \in rows : r.BreachYearMonth = stamps[i]]

\* The trend insight: breaches of the last two years against the two before.
recent_years(fdf, now) == SelectSeq(fdf, LAMBDA r : r.BreachYear >= now - 2)

previous_years(fdf, now) ==
    SelectSeq(fdf, LAMBDA r : r.BreachYear < now - 2 /\ r.BreachYear >= now - 4)

\* A comparison that calls equal counts increasing.
trend_ties_increase(recent, previous) ==
    IF recent >= previous THEN "increasing" ELSE "decreasing"

trend(recent, previous) == IF recent > previous THEN "increasing" ELSE "decreasing"

\* nlargest with keep='last': rows with equal values taken from the end.
nlargest_keep_last(t, n, c) == head(sort_values_desc(reverse(t), c), n)

\* nlargest(n, c), keep='first': descending, equal values in table order.
nlargest(t, n, c) == head(sort_values_desc(t, c), n)

\* The last row that holds the largest PwnCount.
idxmax_last(t) ==
    CHOOSE i \in DOMAIN t :
        /\ \A j \in DOMAIN t : t[j].PwnCount <= t[i].PwnCount
        /\ \A j \in (i + 1)..Len(t) : t[j].PwnCount < t[i].PwnCount

\* The first row, in table order, that holds the largest PwnCount.
idxmax(t) ==
    CHOOSE i \in DOMAIN t :
        /\ \A j \in DOMAIN t : t[j].PwnCount <= t[i].PwnCount
        /\ \A j \in 1..(i - 1) : t[j].PwnCount < t[i].PwnCount

----------------------------------------------------------------------------
(* app.py: the severity score *)

high_risk_classes ==
    {"Passwords", "Credit cards", "Social security numbers", "Financial data",
     "Health records", "Dates of birth", "Phone numbers", "Security questions and answers"}

size_scores == <<1, 2, 3, 4>>

severity_bins == <<0, 3, 6, 10>>

severity_labels == <<"Low", "Medium", "High">>

\* astype(int) of the size score raises when a PwnCount falls in no bin.
size_score_raises(t) == \E i \in DOMAIN t : cut_code(t[i].PwnCount, size_bins) = 0

SizeScore(r) == size_scores[cut_code(r.PwnCount, size_bins)]

SensitiveScore(r) == (IF r.IsSensitive THEN 1 ELSE 0) * 3

HighRiskDataCount(r) ==
    Cardinality({k \in DOMAIN r.DataClasses : r.DataClasses[k] \in high_risk_classes})

\* The data-class score without its cap.
DataClassScore_uncapped(r) == HighRiskDataCount(r)

DataClassScore(r) == Min(HighRiskDataCount(r), 3)

SeverityScore(r) == Min(SizeScore(r) + SensitiveScore(r) + DataClassScore(r), 10)

\* Left-closed severity bins: [0,3) [3,6) [6,10].
SeverityCategory_left_closed(score) ==
    IF score < 3 THEN "Low" ELSE IF score < 6 THEN "Medium" ELSE "High"

SeverityCategory(score) == cut(score, severity_bins, severity_labels)

SeverityRow(r) ==
    [Name |-> r.Name,
     PwnCount |-> r.PwnCount,
     IsSensitive |-> r.IsSensitive,
     DataClasses |-> r.DataClasses,
     SeverityScore |-> SeverityScore(r),
     SeverityCategory |-> SeverityCategory(SeverityScore(r))]

severity_of(t) == [i \in DOMAIN t |-> SeverityRow(t[i])]

high_severity_of(sev) == {r \in Range(sev) : r.SeverityCategory = "High"}

\* sort_values('SeverityScore', ascending=False).head(n): the sort is not
\* stable, so any n rows that no left-out row outscores may be listed.
head_by_score(rows, n) ==
    { S \in SUBSET rows :
        /\ Cardinality(S) = Min(n, Cardinality(rows))
        /\ \A a \in S : \A b \in rows \ S : a.SeverityScore >= b.SeverityScore }

Names(rows) == {r.Name : r \in rows}

----------------------------------------------------------------------------
(* In-place assignments of the pages *)

\* Timeline: with no complete date range and no size selected no filter
\* statement runs, and filtered_df is the loaded frame itself, not a copy.
filtered_df_is_df(dr, bs) == Len(dr) # 2 /\ bs = {}

setitem_BreachSizeCategory(t) ==
    [i \in DOMAIN t |-> [t[i] EXCEPT !.BreachSizeCategory = astype_str(@)]]

\* What the loaded frame holds after filtered_df['BreachSizeCategory'] = ...
df_after_setitem(p, t, dr, bs) ==
    IF p = "Timeline" /\ filtered_df_is_df(dr, bs) THEN setitem_BreachSizeCategory(t) ELSE t

setitem_Year(t) ==
    [i \in DOMAIN t |->
        [Name |-> t[i].Name, Domain |-> t[i].Domain, BreachDate |-> t[i].BreachDate,
         PwnCount |-> t[i].PwnCount, IsVerified |-> t[i].IsVerified,
         IsSensitive |-> t[i].IsSensitive, DataClasses |-> t[i].DataClasses,
         BreachYear |-> t[i].BreachYear, BreachSizeCategory |-> t[i].BreachSizeCategory,
         Year |-> year(t[i].BreachDate)]]

\* The assignment written through to the rows the view was taken from.
data_classes_df_written_through(p, dcdf, fdc) ==
    IF p = "DataClasses"
    THEN LET touched == SelectSeq(dcdf, LAMBDA c : c.Name \in Range(Column(fdc, "Name")))
         IN IF touched = <<>> THEN dcdf
            ELSE [i \in DOMAIN dcdf |->
                     IF dcdf[i].Name \in Range(Column(fdc, "Name"))
                     THEN setitem_Year(<<dcdf[i]>>)[1] ELSE dcdf[i]]
    ELSE dcdf

\* What the loaded class rows hold after filtered_data_classes_df['Year'] = ...:
\* the view is the copy a boolean mask returns, the loaded rows are untouched.
data_classes_df_after_setitem(p, dcdf, fdc) == dcdf

----------------------------------------------------------------------------
(* app.py: the search box *)

ascii_uppercase == "ABCDEFGHIJKLMNOPQRSTUVWXYZ"

ascii_lowercase == "abcdefghijklmnopqrstuvwxyz"

lower_of ==
    [c \in {SubSeq(ascii_uppercase, k, k) : k \in 1..Len(ascii_uppercase)} |->
        LET k == CHOOSE k \in 1..Len(ascii_uppercase) : SubSeq(ascii_uppercase, k, k) = c
        IN SubSeq(ascii_lowercase, k, k)]

lower_char(c) == IF c \in DOMAIN lower_of THEN lower_of[c] ELSE c

RECURSIVE lower(_)
lower(text) ==
    IF Len(text) = 0 THEN ""
    ELSE lower_char(SubSeq(text, 1, 1)) \o lower(SubSeq(text, 2, Len(text)))

\* str.contains(term, case=False) for a term of letters and digits, where
\* the regular expression matches exactly where the term occurs.
str_contains(text, term) ==
    LET haystack == lower(text)
        needle == lower(term)
    IN \E i \in 1..(Len(haystack) - Len(needle) + 1) :
           SubSeq(haystack, i, i + Len(needle) - 1) = needle

name_domain_matches(fdf, term) ==
    SelectSeq(fdf, LAMBDA r : str_contains(r.Name, term) \/ str_contains(r.Domain, term))

\* str.contains gives a missing value for a missing value, and a mask that
\* holds one cannot index the frame.
data_class_matches_raises(dcdf) == \E i \in DOMAIN dcdf : dcdf[i].DataClasses = NaN

data_class_matches(dcdf, term) ==
    SelectSeq(dcdf, LAMBDA c : c.DataClasses # NaN /\ str_contains(c.DataClasses, term))

\* A search that lists the matching class rows themselves.
search_concat_class_rows(fdf, dcdf, term) ==
    name_domain_matches(fdf, term) \o data_class_matches(dcdf, term)

search_concat(fdf, dcdf, term) ==
    name_domain_matches(fdf, term)
    \o SelectSeq(fdf, LAMBDA r : r.Name \in Range(Column(data_class_matches(dcdf, term), "Name")))

\* drop_duplicates() hashes every column, and the DataClasses column holds
\* lists: it raises on any frame that has a row.
drop_duplicates_raises(t) == t # <<>>

drop_duplicates(t) == unique(t)

----------------------------------------------------------------------------
(* One run of the script of page p under the given widget values.  The     *)
(* run stops at the first statement that raises.                           *)

NotComputed == "not computed"

Steps(p, term) ==
    CASE p = "app" ->
           <<"load_data", "verified_percentage", "data_class_counts", "top_data_classes",
             "timeline_data", "top_breaches", "size_distribution", "severity_df",
             "high_severity", "sensitive_class_counts", "most_common_data_class",
             "largest_breach", "trend_text">>
           \o (IF term # "" THEN <<"data_class_matches", "search_results">> ELSE <<>>)
      [] p = "Home" -> <<"load_data", "verified_percentage", "data_class_counts",
                         "top_data_classes", "most_common_data_class", "largest_breach",
                         "trend_text", "top_breaches">>
      [] p = "Timeline" -> <<"load_data", "yearly_breaches", "yearly_avg">>
      [] p = "DataClasses" -> <<"load_data", "data_class_counts", "most_common_data_class">>

\* The exception the step raises on page p over the views v, or "none".
Raises(p, step, v, term) ==
    CASE step = "load_data" /\ v.load_error # "none" -> v.load_error
      [] step = "severity_df" /\ size_score_raises(v.filtered_df) -> "ValueError"
      [] step = "most_common_data_class" /\ p # "app" /\ v.class_values = <<>> -> "IndexError"
      [] step = "largest_breach" /\ p = "Home" /\ v.filtered_df = <<>> -> "ValueError"
      [] step = "yearly_avg" /\ v.filtered_df = <<>> -> "ZeroDivisionError"
      [] step = "data_class_matches" /\ data_class_matches_raises(v.data_classes_df)
           -> "ValueError"
      [] step = "search_results"
         /\ drop_duplicates_raises(search_concat(v.filtered_df, v.data_classes_df, term))
           -> "TypeError"
      [] OTHER -> "none"

FirstRaise(p, v, term) ==
    LET st == Steps(p, term)
        bad == {i \in DOMAIN st : Raises(p, st[i], v, term) # "none"}
    IN IF bad = {} THEN 0 ELSE SetMin(bad)

\* A script that keeps the class rows of the selected classes as the
\* filtered class-row view.
filtered_class_rows_of_selection(dcdf, fdf, sel) ==
    IF sel # {}
    THEN SelectSeq(dcdf, LAMBDA c : c.DataClasses \in sel)
    ELSE class_rows_of(dcdf, fdf)

\* filtered_data_classes_df: the rows of the selected classes are assigned
\* to it while the records are filtered, and the class rows of the filtered
\* records replace them before anything reads it.
filtered_class_rows(dcdf, fdf, sel) == class_rows_of(dcdf, fdf)

\* A script that narrows the view of the last run instead of starting over.
filter_source_incremental(loaded, previous) ==
    IF previous = <<>> THEN loaded ELSE previous

\* The frame the first filter statement reads: df, never the last view.
filter_source(loaded, previous) == loaded

\* Loading and filtering: the four tables of the run and the non-missing
\* values of the filtered class rows.
Views(p, loaded, previous, dr, vs, ss, bs, sel) ==
    LET view == sidebar_filters(p, filter_source(loaded.df, previous),
                                loaded.data_classes_df, dr, vs, ss, bs, sel)
        fdf == IF p = "Timeline" THEN setitem_BreachSizeCategory(view) ELSE view
        rows == IF p = "Timeline" THEN <<>>
                ELSE filtered_class_rows(loaded.data_classes_df, view, sel)
        fdc == IF p = "DataClasses" THEN setitem_Year(rows) ELSE rows
    IN [df |-> df_after_setitem(p, loaded.df, dr, bs),
        data_classes_df |-> data_classes_df_after_setitem(p, loaded.data_classes_df, rows),
        filtered_df |-> fdf,
        filtered_data_classes_df |-> fdc,
        class_values |-> dropna(Column(fdc, "DataClasses")),
        load_error |-> loaded.error]

\* The aggregations of page p over the views v, up to the first raise, when
\* value_counts() gives the data classes in the order counts.
Aggregations(p, v, counts, term, now) ==
    LET fdf == v.filtered_df
        st == Steps(p, term)
        stop == FirstRaise(p, v, term)
        done == IF stop = 0 THEN Range(st) ELSE {st[i] : i \in 1..(stop - 1)}
        sev == IF "severity_df" \in done THEN severity_of(fdf) ELSE <<>>
        yearly == IF "yearly_breaches" \in done THEN groupby_size(fdf, "BreachYear") ELSE <<>>
    IN [df |-> v.df,
        data_classes_df |-> v.data_classes_df,
        filtered_df |-> fdf,
        filtered_data_classes_df |-> v.filtered_data_classes_df,
        error |-> IF stop = 0 THEN "none" ELSE Raises(p, st[stop], v, term),
        computed |-> done,
        verified_percentage |->
            IF "verified_percentage" \in done
            THEN percentage_of(Cardinality({i \in DOMAIN fdf : fdf[i].IsVerified}), Len(fdf))
            ELSE <<0, 1>>,
        data_class_counts |->
            IF "data_class_counts" \in done THEN data_class_counts_of(p, counts, fdf) ELSE <<>>,
        top_data_classes |->
            IF "top_data_classes" \in done THEN top_data_classes_of(counts) ELSE <<>>,
        timeline_data |-> IF "timeline_data" \in done THEN groupby_agg(fdf) ELSE <<>>,
        yearly_breaches |-> yearly,
        yearly_avg |-> IF "yearly_avg" \in done THEN <<Len(fdf), Len(yearly)>> ELSE <<0, 1>>,
        severity_df |-> sev,
        high_severity |->
            IF "high_severity" \in done THEN Names(high_severity_of(sev)) ELSE {},
        high_severity_tables |->
            IF "high_severity" \in done
            THEN {Names(S) : S \in head_by_score(high_severity_of(sev), HeadLimit)}
            ELSE {{}},
        most_common_data_class |->
            IF "most_common_data_class" \in done
            THEN IF counts # <<>> THEN counts[1].DataClass ELSE "N/A"
            ELSE NotComputed,
        largest_breach |->
            IF "largest_breach" \in done
            THEN IF fdf = <<>> THEN "N/A"
                 ELSE IF p = "app" THEN nlargest(fdf, 1, "PwnCount")[1].Name
                 ELSE fdf[idxmax(fdf)].Name
            ELSE NotComputed,
        largest_breach_count |->
            IF "largest_breach" \in done /\ fdf # <<>>
            THEN IF p = "app" THEN nlargest(fdf, 1, "PwnCount")[1].PwnCount
                 ELSE SetMax(Range(Column(fdf, "PwnCount")))
            ELSE 0,
        recent_count |->
            IF "trend_text" \in done THEN Len(recent_years(fdf, now)) ELSE 0,
        previous_count |->
            IF "trend_text" \in done THEN Len(previous_years(fdf, now)) ELSE 0,
        trend_text |->
            IF "trend_text" \in done
            THEN trend(Len(recent_years(fdf, now)), Len(previous_years(fdf, now)))
            ELSE NotComputed,
        top_breaches |->
            IF "top_breaches" \in done
            THEN Column(nlargest(fdf, HeadLimit, "PwnCount"), "Name") ELSE <<>>,
        size_distribution |->
            IF "size_distribution" \in done THEN size_distribution_of(fdf) ELSE {},
        sensitive_class_counts_outcomes |->
            IF "sensitive_class_counts" \in done
            THEN sensitive_class_counts_of(fdf, v.data_classes_df) ELSE {{}},
        search_matches |->
            IF "data_class_matches" \in done
            THEN Column(search_concat(fdf, v.data_classes_df, term), "Name") ELSE <<>>,
        search_results |->
            IF "search_results" \in done
            THEN Column(drop_duplicates(search_concat(fdf, v.data_classes_df, term)), "Name")
            ELSE <<>>]

\* Every outcome of one run.
Script(p, loaded, previous, dr, vs, ss, bs, sel, term, now) ==
    UNION { { Aggregations(p, v, counts, term, now) :
                counts \in value_counts(v.class_values) } :
              v \in {Views(p, loaded, previous, dr, vs, ss, bs, sel)} }

Run(p, dr, vs, ss, bs, sel, term) ==
    \E loaded \in {cached_load_data(p, cache, source)} :
    \E o \in Script(p, loaded, filtered_df, dr, vs, ss, bs, sel, term, current_year) :
       /\ cache' = cache_after(p, cache, loaded)
       /\ parses' = parses_after(p, cache, parses)
       /\ page' = p
       /\ date_range' = dr
       /\ verification_status' = vs
       /\ sensitivity_status' = ss
       /\ breach_size' = bs
       /\ selected_data_classes' = sel
       /\ search_term' = term
       /\ df' = o.df
       /\ data_classes_df' = o.data_classes_df
       /\ filtered_df' = o.filtered_df
       /\ filtered_data_classes_df' = o.filtered_data_classes_df
       /\ error' = o.error
       /\ computed' = o.computed
       /\ verified_percentage' = o.verified_percentage
       /\ data_class_counts' = o.data_class_counts
       /\ top_data_classes' = o.top_data_classes
       /\ timeline_data' = o.timeline_data
       /\ yearly_breaches' = o.yearly_breaches
       /\ yearly_avg' = o.yearly_avg
       /\ severity_df' = o.severity_df
       /\ high_severity' = o.high_severity
       /\ high_severity_table' \in o.high_severity_tables
       /\ most_common_data_class' = o.most_common_data_class
       /\ largest_breach' = o.largest_breach
       /\ largest_breach_count' = o.largest_breach_count
       /\ recent_count' = o.recent_count
       /\ previous_count' = o.previous_count
       /\ trend_text' = o.trend_text
       /\ top_breaches' = o.top_breaches
       /\ size_distribution' = o.size_distribution
       /\ sensitive_class_counts' \in o.sensitive_class_counts_outcomes
       /\ search_matches' = o.search_matches
       /\ search_results' = o.search_results
       /\ UNCHANGED <<source, current_year>>

default_verification(p) == IF p \in {"app", "Home"} THEN verification_options ELSE {}

default_sensitivity(p) == IF p \in {"app", "Home"} THEN sensitivity_options ELSE {}

InitFrom(S, Y) ==
    /\ source \in S
    /\ current_year \in Y
    /\ page \in {"app", "Home"}
    /\ cache = cache_after(page, <<>>, load_data(page, source))
    /\ parses = 1
    /\ nInteractions = 0
    /\ date_range = default_date_range(source)
    /\ verification_status = default_verification(page)
    /\ sensitivity_status = default_sensitivity(page)
    /\ breach_size = breach_size_options(page, load_data(page, source).df)
    /\ selected_data_classes = {}
    /\ search_term = ""
    /\ \E o \in Script(page, load_data(page, source), <<>>, date_range,
                      verification_status, sensitivity_status, breach_size,
                      selected_data_classes, search_term, current_year) :
          /\ df = o.df
          /\ data_classes_df = o.data_classes_df
          /\ filtered_df = o.filtered_df
          /\ filtered_data_classes_df = o.filtered_data_classes_df
          /\ error = o.error
          /\ computed = o.computed
          /\ verified_percentage = o.verified_percentage
          /\ data_class_counts = o.data_class_counts
          /\ top_data_classes = o.top_data_classes
          /\ timeline_data = o.timeline_data
          /\ yearly_breaches = o.yearly_breaches
          /\ yearly_avg = o.yearly_avg
          /\ severity_df = o.severity_df
          /\ high_severity = o.high_severity
          /\ high_severity_table \in o.high_severity_tables
          /\ most_common_data_class = o.most_common_data_class
          /\ largest_breach = o.largest_breach
          /\ largest_breach_count = o.largest_breach_count
          /\ recent_count = o.recent_count
          /\ previous_count = o.previous_count
          /\ trend_text = o.trend_text
          /\ top_breaches = o.top_breaches
          /\ size_distribution = o.size_distribution
          /\ sensitive_class_counts \in o.sensitive_class_counts_outcomes
          /\ search_matches = o.search_matches
          /\ search_results = o.search_results

\* The year the clock shows when the trend is not what is looked at.
ThisYear == {3}

Init == InitFrom(Sources, ThisYear)

\* The one-record tables are opened in app.py, the long ones in either script.
InitRecords == InitFrom(RecordSources, ThisYear) /\ (page = "Home" => Len(source) > 1)

\* Opening another page of the multipage app: its widgets start at their defaults.
Navigate ==
    \E p \in Pages \ {"app"} :
        /\ page # "app"
        /\ p # page
        /\ p \in DOMAIN cache \/ parses < MaxParses
        /\ nInteractions' = 0
        /\ Run(p, default_date_range(source), default_verification(p),
               default_sensitivity(p), breach_size_options(p, load_data(p, source).df), {}, "")

\* The widgets are drawn after load_data() has returned.
Interact ==
    /\ "load_data" \in computed
    /\ nInteractions < MaxInteractions
    /\ nInteractions' = nInteractions + 1

SetDateRange ==
    /\ Interact
    /\ \E dr \in date_input(df) :
        /\ dr # date_range
        /\ Run(page, dr, verification_status, sensitivity_status, breach_size,
               selected_data_classes, search_term)

SetVerification ==
    \E vs \in SUBSET verification_options :
        /\ Interact
        /\ page \in {"app", "Home"}
        /\ vs # verification_status
        /\ Run(page, date_range, vs, sensitivity_status, breach_size, selected_data_classes,
               search_term)

SetSensitivity ==
    \E ss \in SUBSET sensitivity_options :
        /\ Interact
        /\ page \in {"app", "Home"}
        /\ ss # sensitivity_status
        /\ Run(page, date_range, verification_status, ss, breach_size, selected_data_classes,
               search_term)

SetBreachSize ==
    \E bs \in SUBSET breach_size_options(page, df) :
        /\ Interact
        /\ page # "DataClasses"
        /\ bs # breach_size
        /\ Run(page, date_range, verification_status, sensitivity_status, bs,
               selected_data_classes, search_term)

SetDataClasses ==
    \E sel \in SUBSET all_data_classes(page, data_classes_df) :
        /\ Interact
        /\ page = "app"
        /\ sel # selected_data_classes
        /\ Run(page, date_range, verification_status, sensitivity_status, breach_size, sel,
               search_term)

Next ==
    \/ Navigate
    \/ SetDateRange
    \/ SetVerification
    \/ SetSensitivity
    \/ SetBreachSize
    \/ SetDataClasses

Spec == Init /\ [][Next]_vars

\* The terms typed into the search box: letters and digits only.
SearchTerms == {"", "1", "ADOBE", "PASS", "zz"}

SetSearchTerm ==
    \E term \in SearchTerms :
        /\ Interact
        /\ page = "app"
        /\ term # search_term
        /\ Run(page, date_range, verification_status, sensitivity_status, breach_size,
               selected_data_classes, term)

\* Tables for the search box: the three breaches of the scenario, and one
\* next to a breach without data classes.
SearchSources ==
    { Named(<<BreachA, BreachB, BreachC>>), Named(<<BreachC, BreachA>>),
      Named(<<BreachC, BreachZ>>) }

InitSearch == InitFrom(SearchSources, ThisYear)

NextSearch == Next \/ SetSearchTerm

SpecSearch == InitSearch /\ [][NextSearch]_vars

SpecRecords == InitRecords /\ [][Next]_vars

\* Tables and years for the trend: the clock stands from two to six years
\* after the first breach, so that a breach can be recent, previous or older.
TrendSources == { Named(<<BreachA, BreachB, BreachZ>>), Named(<<BreachZ, BreachA>>) }

CurrentYears == 2..6

InitTrend == InitFrom(TrendSources, CurrentYears)

SpecTrend == InitTrend /\ [][Next]_vars

\* Files with a record whose AddedDate is no date, or is null or absent (both
\* are a missing value once pd.json_normalize has built the frame).
LoadSources ==
    { Named(<<BreachA, [BreachB EXCEPT !.AddedDate = "not a date"]>>),
      Named(<<[BreachA EXCEPT !.AddedDate = NaN], BreachB>>) }

InitLoad == InitFrom(LoadSources, ThisYear)

SpecLoad == InitLoad /\ [][Next]_vars

----------------------------------------------------------------------------
(* Properties *)

HasFilters(p, w) ==
    CASE w = "verification" -> p \in {"app", "Home"}
      [] w = "sensitivity" -> p \in {"app", "Home"}
      [] w = "size" -> p # "DataClasses"
      [] w = "classes" -> p = "app"

AtDefaults ==
    /\ date_range = default_date_range(df)
    /\ verification_status = default_verification(page)
    /\ sensitivity_status = default_sensitivity(page)
    /\ breach_size = breach_size_options(page, df)
    /\ selected_data_classes = {}

\* C1: with every filter control at its default the filtered record view is
\* the full record table, same records in the same order, records whose
\* PwnCount is 0 included.
C1_DefaultsKeepEveryRecord == AtDefaults => filtered_df = df

C1_Witness ==
    /\ AtDefaults
    /\ nInteractions = MaxInteractions
    /\ Len(filtered_df) >= 2
    /\ \E i \in DOMAIN filtered_df : filtered_df[i].PwnCount = 0
    /\ \E i \in DOMAIN filtered_df : filtered_df[i].PwnCount > 0

\* The view the current criteria give when the filter of widget w is left out.
FilteredWithout(w) ==
    LET f1 == date_filter(df, date_range)
        f2 == IF HasFilters(page, "verification") /\ w # "verification"
              THEN verification_filter(f1, verification_status) ELSE f1
        f3 == IF HasFilters(page, "sensitivity") /\ w # "sensitivity"
              THEN sensitivity_filter(f2, sensitivity_status) ELSE f2
        f4 == IF HasFilters(page, "size") /\ w # "size"
              THEN size_filter(f3, breach_size) ELSE f3
    IN IF HasFilters(page, "classes")
       THEN data_class_filter(f4, data_classes_df, selected_data_classes) ELSE f4

\* C2: an empty verification, sensitivity or size selection removes no
\* record, and neither does selecting both verification or both sensitivity
\* labels: the view is the one the other filters give without that filter.
C2_EmptyOrFullSelectionIsNoFilter ==
    /\ (HasFilters(page, "verification")
        /\ verification_status \in {{}, verification_options})
           => filtered_df = FilteredWithout("verification")
    /\ (HasFilters(page, "sensitivity")
        /\ sensitivity_status \in {{}, sensitivity_options})
           => filtered_df = FilteredWithout("sensitivity")
    /\ (HasFilters(page, "size") /\ breach_size = {})
           => filtered_df = FilteredWithout("size")

C2_Witness ==
    /\ page = "Home"
    /\ verification_status = {}
    /\ breach_size = {}
    /\ Len(filtered_df) >= 2
    /\ \E i, j \in DOMAIN filtered_df :
          /\ filtered_df[i].IsVerified # filtered_df[j].IsVerified
          /\ filtered_df[i].BreachSizeCategory # filtered_df[j].BreachSizeCategory

CalendarDay(ts) ==
    CHOOSE d \in 0..ts : d * SlotsPerDay <= ts /\ ts < (d + 1) * SlotsPerDay

InDateRange(r) ==
    Len(date_range) = 2 =>
        date_range[1] <= CalendarDay(r.BreachDate) /\ CalendarDay(r.BreachDate) <= date_range[2]

VerificationMatches(r) ==
    /\ verification_status = {"Verified"} => r.IsVerified
    /\ verification_status = {"Unverified"} => ~r.IsVerified

SensitivityMatches(r) ==
    /\ sensitivity_status = {"Sensitive"} => r.IsSensitive
    /\ sensitivity_status = {"Non-Sensitive"} => ~r.IsSensitive

SizeMatches(r) == breach_size # {} => r.BreachSizeCategory \in breach_size

ClassMatches(r) ==
    selected_data_classes # {} =>
        \E k \in DOMAIN r.DataClasses : r.DataClasses[k] \in selected_data_classes

PassesEveryActivePredicate(r) ==
    /\ InDateRange(r)
    /\ HasFilters(page, "verification") => VerificationMatches(r)
    /\ HasFilters(page, "sensitivity") => SensitivityMatches(r)
    /\ HasFilters(page, "size") => SizeMatches(r)
    /\ HasFilters(page, "classes") => ClassMatches(r)

\* C3: a record is in the filtered view if and only if it satisfies every
\* active predicate: date within the range, IsVerified and IsSensitive
\* matching a single selected label, size category selected, and, when data
\* classes are selected, at least one of its own data classes selected.
C3_ViewIsConjunctionOfPredicates ==
    filtered_df = SelectSeq(df, PassesEveryActivePredicate)

\* C4: the date predicate is inclusive on both ends and compares calendar
\* days only: every record of the view lies within the range, and with the
\* other filters at their defaults the view is exactly the records whose
\* calendar day d satisfies start <= d <= end.
C4_DateRangeInclusiveByCalendarDay ==
    Len(date_range) = 2 =>
        /\ \A i \in DOMAIN filtered_df :
              /\ date_range[1] <= CalendarDay(filtered_df[i].BreachDate)
              /\ CalendarDay(filtered_df[i].BreachDate) <= date_range[2]
        /\ (/\ verification_status = default_verification(page)
            /\ sensitivity_status = default_sensitivity(page)
            /\ breach_size = breach_size_options(page, df)
            /\ selected_data_classes = {})
           => filtered_df = SelectSeq(df, InDateRange)

C4_Witness ==
    /\ Len(date_range) = 2
    /\ date_range[1] = date_range[2]
    /\ Len(df) >= 2
    /\ \E i \in DOMAIN filtered_df :
          /\ CalendarDay(filtered_df[i].BreachDate) = date_range[1]
          /\ filtered_df[i].BreachDate % SlotsPerDay # 0
    /\ Len(filtered_df) < Len(df)

\* C5: whenever the filtered record view is empty, on every page, no step
\* of the run fails and every aggregation is empty or zero: the frequency
\* table and the top list are empty, the percentage is 0, and the insights
\* mostCommonDataClass and largestBreach are "N/A".
C5_EmptyViewAggregatesWithoutError ==
    filtered_df = <<>> =>
        /\ error = "none"
        /\ data_class_counts = <<>>
        /\ top_data_classes = <<>>
        /\ verified_percentage[1] = 0
        /\ page \in {"app", "Home"} =>
              /\ most_common_data_class = "N/A"
              /\ largest_breach = "N/A"

\* C6: a date range whose end is before its start gives an empty filtered
\* record view and an empty class-row view; the filter step raises nothing.
C6_ReversedRangeMatchesNothing ==
    (Len(date_range) = 2 /\ date_range[2] < date_range[1]) =>
        /\ filtered_df = <<>>
        /\ filtered_data_classes_df = <<>>

C6_Witness ==
    /\ Len(date_range) = 2
    /\ date_range[2] < date_range[1]
    /\ Len(df) >= 2
    /\ filtered_df = <<>>

ExpectedSizeCategory(n) ==
    IF n >= 1 /\ n <= 10000 THEN "Small (<10k)"
    ELSE IF n >= 10001 /\ n <= 1000000 THEN "Medium (10k-1M)"
    ELSE IF n >= 1000001 /\ n <= 50000000 THEN "Large (1M-50M)"
    ELSE IF n > 50000000 THEN "Massive (>50M)"
    ELSE NaN

\* C7: the size category is a function of PwnCount with right-closed
\* buckets 1..10000, 10001..1000000, 1000001..50000000 and above; a PwnCount
\* of 0 gets no category; every load_data copy assigns the same bucket to
\* the same PwnCount.
C7_SizeCategoryByBucket ==
    /\ \A i \in DOMAIN df : df[i].BreachSizeCategory = ExpectedSizeCategory(df[i].PwnCount)
    /\ \A i \in DOMAIN df : \A p \in Pages :
          BreachSizeCategory(p, df[i].PwnCount) = df[i].BreachSizeCategory

\* C8: for every record that can be in a filtered view (any PwnCount >= 0
\* and any data classes) the severity computation completes without error
\* and gives every record of the view an integer score between 0 and 10.
C8_SeverityIsTotal ==
    page = "app" =>
        /\ error = "none"
        /\ "severity_df" \in computed
        /\ Len(severity_df) = Len(filtered_df)
        /\ \A i \in DOMAIN severity_df : severity_df[i].SeverityScore \in 0..10

ExpectedSizeScore(n) ==
    IF n <= 10000 THEN 1 ELSE IF n <= 1000000 THEN 2 ELSE IF n <= 50000000 THEN 3 ELSE 4

ExpectedSeverityScore(r) ==
    LET highRisk == Len(SelectSeq(r.DataClasses, LAMBDA c : c \in high_risk_classes))
        total == ExpectedSizeScore(r.PwnCount)
                 + (IF r.IsSensitive THEN 3 ELSE 0)
                 + (IF highRisk > 3 THEN 3 ELSE highRisk)
    IN IF total > 10 THEN 10 ELSE total

IsSeverityExample(r) ==
    /\ r.PwnCount = 2000000
    /\ r.IsSensitive
    /\ r.DataClasses = <<"Passwords", "Usernames", "Credit cards">>

\* C9: every scored record with PwnCount >= 1 has severityScore =
\* min(10, sizeScore + sensitiveScore + dataClassScore), the size score 1..4
\* by the size buckets, 3 for a sensitive breach, and the number of its
\* high-risk data classes capped at 3; the record with PwnCount 2000000,
\* sensitive, [Passwords, Usernames, Credit cards] scores 8.
C9_SeverityScoreFormula ==
    \A i \in DOMAIN severity_df :
        /\ severity_df[i].PwnCount >= 1 =>
              severity_df[i].SeverityScore = ExpectedSeverityScore(severity_df[i])
        /\ IsSeverityExample(severity_df[i]) => severity_df[i].SeverityScore = 8

C9_Witness ==
    /\ "severity_df" \in computed
    /\ nInteractions > 0
    /\ \E i \in DOMAIN severity_df :
          /\ IsSeverityExample(severity_df[i])
          /\ severity_df[i].SeverityScore = 8

ExpectedSeverityCategory(score) ==
    IF score \in 1..3 THEN "Low"
    ELSE IF score \in 4..6 THEN "Medium"
    ELSE IF score \in 7..10 THEN "High"
    ELSE NaN

HighRows == {r \in Range(severity_df) : ExpectedSeverityCategory(r.SeverityScore) = "High"}

\* C10 as stated: scores 1..3 are Low, 4..6 Medium, 7..10 High, and the
\* high-severity table lists exactly the records whose category is High.
C10_TableListsEveryHighRecord ==
    "high_severity" \in computed =>
        /\ \A i \in DOMAIN severity_df :
              severity_df[i].SeverityCategory
                  = ExpectedSeverityCategory(severity_df[i].SeverityScore)
        /\ high_severity_table = {r.Name : r \in HighRows}

\* C10 amended: scores 1..3 are Low, 4..6 Medium, 7..10 High; the
\* high_severity frame holds exactly the records whose category is High,
\* and the high-severity table lists min(10, their number) of them, none
\* left out scoring above one that is listed.
C10_TableListsTopTenHighRecords ==
    "high_severity" \in computed =>
        /\ \A i \in DOMAIN severity_df :
              severity_df[i].SeverityCategory
                  = ExpectedSeverityCategory(severity_df[i].SeverityScore)
        /\ high_severity = {r.Name : r \in HighRows}
        /\ high_severity_table \subseteq high_severity
        /\ Cardinality(high_severity_table)
              = IF Cardinality(HighRows) > 10 THEN 10 ELSE Cardinality(HighRows)
        /\ \A a \in HighRows : \A b \in HighRows :
              (a.Name \in high_severity_table /\ b.Name \notin high_severity_table)
                  => a.SeverityScore >= b.SeverityScore

C10_Witness ==
    /\ "high_severity" \in computed
    /\ nInteractions > 0
    /\ Cardinality(high_severity) > 10
    /\ Cardinality(high_severity_table) = 10

ViewNames == Range(Column(filtered_df, "Name"))

\* C11: on every page that has class rows, every name in the filtered
\* class-row view is the name of a record of the filtered record view, and
\* every record of the view with at least one data class has a class row.
C11_ClassRowsAgreeWithView ==
    page # "Timeline" =>
        /\ \A j \in DOMAIN filtered_data_classes_df :
              filtered_data_classes_df[j].Name \in ViewNames
        /\ \A i \in DOMAIN filtered_df :
              filtered_df[i].DataClasses # <<>> =>
                  \E j \in DOMAIN filtered_data_classes_df :
                      filtered_data_classes_df[j].Name = filtered_df[i].Name

C11_Witness ==
    /\ page = "app"
    /\ selected_data_classes # {}
    /\ filtered_df # <<>>
    /\ Len(filtered_df) < Len(df)
    /\ Len(filtered_data_classes_df) < Len(data_classes_df)
    /\ \E i \in DOMAIN filtered_df : Len(filtered_df[i].DataClasses) >= 2

RECURSIVE SumLen(_)
SumLen(t) == IF t = <<>> THEN 0 ELSE Len(Head(t).DataClasses) + SumLen(Tail(t))

\* C12: load_data gives one class row per element of a record's
\* DataClasses: a record with none has no class row, and the class-row table
\* has as many rows as the DataClasses sequences have elements.
C12_OneClassRowPerDataClass ==
    page # "Timeline" =>
        /\ Len(data_classes_df) = SumLen(df)
        /\ \A i \in DOMAIN df :
              df[i].DataClasses = <<>> =>
                  \A j \in DOMAIN data_classes_df : data_classes_df[j].Name # df[i].Name

\* C13: whatever filters were changed and whatever the page computed (the
\* severity scores, the Timeline page's assignment to BreachSizeCategory,
\* the Data Classes page's Year column), the loaded record table and the
\* loaded class-row table are as load_data returned them.
C13_LoadedTablesUnchanged ==
    /\ df = load_data(page, source).df
    /\ data_classes_df = load_data(page, source).data_classes_df

C13_Witness ==
    /\ page = "Timeline"
    /\ nInteractions = MaxInteractions
    /\ filtered_df_is_df(date_range, breach_size)
    /\ Len(df) >= 2
    /\ filtered_df = df
    /\ \E i \in DOMAIN df : df[i].PwnCount = 0

\* The records of df that the current criteria keep, computed from the
\* loaded table alone.
FromScratch ==
    LET loaded == load_data(page, source)
        f1 == date_filter(loaded.df, date_range)
        f2 == IF HasFilters(page, "verification")
              THEN verification_filter(f1, verification_status) ELSE f1
        f3 == IF HasFilters(page, "sensitivity")
              THEN sensitivity_filter(f2, sensitivity_status) ELSE f2
        f4 == IF HasFilters(page, "size") THEN size_filter(f3, breach_size) ELSE f3
    IN IF HasFilters(page, "classes")
       THEN data_class_filter(f4, loaded.data_classes_df, selected_data_classes) ELSE f4

\* C14: after any sequence of criteria changes the filtered record view is
\* what the current criteria give on the loaded table from scratch,
\* whatever the earlier criteria were, with the records in table order.
C14_ViewIsRecomputedFromScratch ==
    /\ filtered_df = FromScratch
    /\ filtered_df = SelectSeq(df, LAMBDA r : r.Name \in ViewNames)

C14_Witness ==
    /\ nInteractions = MaxInteractions
    /\ page = "app"
    /\ verification_status = {"Unverified"}
    /\ Len(date_range) = 2
    /\ filtered_df # <<>>
    /\ Len(filtered_df) < Len(df)

BeforeClassFilter ==
    size_filter(
        sensitivity_filter(
            verification_filter(date_filter(df, date_range), verification_status),
            sensitivity_status),
        breach_size)

\* C15: with data classes selected, a record passes the data-class
\* predicate exactly when at least one of its own data classes is selected;
\* a record without data classes never passes.
C15_DataClassPredicateIsAnyOf ==
    (page = "app" /\ selected_data_classes # {}) =>
        filtered_df =
            SelectSeq(BeforeClassFilter,
                      LAMBDA r : \E k \in DOMAIN r.DataClasses :
                                     r.DataClasses[k] \in selected_data_classes)

SearchMatches(r) ==
    \/ str_contains(r.Name, search_term)
    \/ str_contains(r.Domain, search_term)
    \/ \E k \in DOMAIN r.DataClasses : str_contains(r.DataClasses[k], search_term)

\* C16: for a non-empty search term the search completes and lists exactly
\* the records of the view whose name, domain or one of whose data classes
\* contains the term, whatever the case of the letters, each record once.
C16_SearchListsEveryMatchOnce ==
    (page = "app" /\ search_term # "" /\ "largest_breach" \in computed) =>
        /\ error = "none"
        /\ "search_results" \in computed
        /\ Range(search_results) = {r.Name : r \in {x \in Range(filtered_df) : SearchMatches(x)}}
        /\ \A i, j \in DOMAIN search_results :
              search_results[i] = search_results[j] => i = j

RECURSIVE SumPercentage(_)
SumPercentage(rows) ==
    IF rows = {} THEN 0
    ELSE LET r == CHOOSE x \in rows : TRUE IN r.Percentage + SumPercentage(rows \ {r})

\* Percentages are held in tenths: they sum to 100 within the rounding of
\* each row to one decimal.
SumsTo100(rows) ==
    /\ \A r \in rows : r.Percentage # NaNPercentage
    /\ (\A r \in rows : r.Percentage # NaNPercentage) =>
          /\ 2 * (SumPercentage(rows) - 1000) <= Cardinality(rows)
          /\ 2 * (1000 - SumPercentage(rows)) <= Cardinality(rows)

\* C17: the percentages of every frequency table that is shown with rows
\* sum to 100: the top-10 data-class table, the size-distribution table,
\* the sensitive-class table and the Data Classes page's distribution table.
C17_PercentagesSumTo100 ==
    /\ ("top_data_classes" \in computed /\ top_data_classes # <<>>)
          => SumsTo100(Range(top_data_classes))
    /\ ("size_distribution" \in computed /\ size_distribution # {})
          => SumsTo100(size_distribution)
    /\ ("sensitive_class_counts" \in computed /\ sensitive_class_counts # {})
          => SumsTo100(sensitive_class_counts)
    /\ (page = "DataClasses" /\ "data_class_counts" \in computed /\ data_class_counts # <<>>)
          => SumsTo100(Range(data_class_counts))

ClassValues == dropna(Column(filtered_data_classes_df, "DataClasses"))

FirstSeen(c) == CHOOSE j \in DOMAIN ClassValues :
                    ClassValues[j] = c /\ \A k \in 1..(j - 1) : ClassValues[k] # c

ViewIndex(n) == CHOOSE i \in DOMAIN filtered_df : filtered_df[i].Name = n

PwnCountOf(n) == filtered_df[ViewIndex(n)].PwnCount

\* C19: the top-10 list holds min(10, size of the view) records of the
\* view, by descending PwnCount; no record left out has a larger PwnCount
\* than one listed; records with equal PwnCount are taken and listed in
\* table order.
C19_TopBreachesByPwnCount ==
    "top_breaches" \in computed =>
        /\ Len(top_breaches) = (IF Len(filtered_df) > 10 THEN 10 ELSE Len(filtered_df))
        /\ Range(top_breaches) \subseteq ViewNames
        /\ \A i, j \in DOMAIN top_breaches :
              i < j =>
                  \/ PwnCountOf(top_breaches[i]) > PwnCountOf(top_breaches[j])
                  \/ /\ PwnCountOf(top_breaches[i]) = PwnCountOf(top_breaches[j])
                     /\ ViewIndex(top_breaches[i]) < ViewIndex(top_breaches[j])
        /\ \A a \in Range(top_breaches) : \A b \in ViewNames \ Range(top_breaches) :
              \/ PwnCountOf(a) > PwnCountOf(b)
              \/ PwnCountOf(a) = PwnCountOf(b) /\ ViewIndex(a) < ViewIndex(b)

C19_Witness ==
    /\ "top_breaches" \in computed
    /\ nInteractions > 0
    /\ Len(filtered_df) > 10
    /\ Len(top_breaches) = 10
    /\ \E i, j \in DOMAIN filtered_df :
          filtered_df[i].PwnCount # filtered_df[j].PwnCount
    /\ \E b \in ViewNames \ Range(top_breaches) :
          PwnCountOf(b) = PwnCountOf(top_breaches[10])

\* C20: largestBreach names a record of the view that holds the largest
\* PwnCount of the view, the first such record in table order, and the
\* count reported is that record's PwnCount.
C20_LargestBreachIsFirstMaximum ==
    ("largest_breach" \in computed /\ filtered_df # <<>>) =>
        /\ largest_breach \in ViewNames
        /\ \A i \in DOMAIN filtered_df :
              filtered_df[i].PwnCount <= PwnCountOf(largest_breach)
        /\ \A i \in 1..(ViewIndex(largest_breach) - 1) :
              filtered_df[i].PwnCount < PwnCountOf(largest_breach)
        /\ largest_breach_count = PwnCountOf(largest_breach)

C20_Witness ==
    /\ "largest_breach" \in computed
    /\ nInteractions > 0
    /\ largest_breach \in ViewNames
    /\ ViewIndex(largest_breach) > 1
    /\ \E i \in DOMAIN filtered_df :
          /\ i > ViewIndex(largest_breach)
          /\ filtered_df[i].PwnCount = largest_breach_count

\* Breaches of the view whose year lies in lo..hi.
InYears(lo, hi) ==
    Cardinality({i \in DOMAIN filtered_df :
                    lo <= filtered_df[i].BreachYear /\ filtered_df[i].BreachYear <= hi})

\* C21: the trend counts as recent the records of the view of the last two
\* years (breachYear >= currentYear - 2) and as previous those of the two
\* years before; older records are in neither.  It reads 'increasing' if and
\* only if recent > previous and 'decreasing' otherwise, equal counts (0 and
\* 0 too) included: there is no flat outcome.
C21_TrendIsIncreasingIffMoreRecent ==
    "trend_text" \in computed =>
        /\ recent_count = Cardinality({i \in DOMAIN filtered_df :
                                         filtered_df[i].BreachYear >= current_year - 2})
        /\ previous_count = InYears(current_year - 4, current_year - 3)
        /\ recent_count + previous_count + InYears(0, current_year - 5) = Len(filtered_df)
        /\ trend_text \in {"increasing", "decreasing"}
        /\ trend_text = "increasing" <=> recent_count > previous_count

C21_Witness ==
    /\ "trend_text" \in computed
    /\ page = "Home"
    /\ nInteractions > 0
    /\ recent_count = previous_count
    /\ recent_count > 0
    /\ Len(filtered_df) < Len(df)
    /\ trend_text = "decreasing"

\* The first instant of the month of timestamp ts, and the year of ts.
MonthStart(ts) == CalendarDay(ts) * SlotsPerDay

YearOf(ts) ==
    CHOOSE y \in 0..ts :
        y * DaysPerYear < CalendarDay(ts) /\ CalendarDay(ts) <= (y + 1) * DaysPerYear

\* The records of the view in the month that starts at s, and in year y.
InMonth(s) == {i \in DOMAIN filtered_df : MonthStart(filtered_df[i].BreachDate) = s}

InYear(y) == {i \in DOMAIN filtered_df : YearOf(filtered_df[i].BreachDate) = y}

RECURSIVE SumPwnCount(_)
SumPwnCount(I) ==
    IF I = {} THEN 0
    ELSE LET i == CHOOSE i \in I : TRUE
         IN filtered_df[i].PwnCount + SumPwnCount(I \ {i})

RECURSIVE SumField(_, _)
SumField(rows, f) == IF rows = <<>> THEN 0 ELSE Head(rows)[f] + SumField(Tail(rows), f)

\* C22: grouping the view by month (app.py) or by year (Timeline page)
\* gives exactly one group per period that occurs in the view, in ascending
\* order; the count of a group is the number of records of the view in that
\* period and its total the sum of their PwnCount, so the counts add up to
\* the number of records of the view and the totals to its total PwnCount.
C22_OneGroupPerPeriod ==
    /\ "timeline_data" \in computed =>
          /\ {timeline_data[k].BreachYearMonth : k \in DOMAIN timeline_data}
                = {MonthStart(filtered_df[i].BreachDate) : i \in DOMAIN filtered_df}
          /\ \A j, k \in DOMAIN timeline_data :
                j < k => timeline_data[j].BreachYearMonth < timeline_data[k].BreachYearMonth
          /\ \A k \in DOMAIN timeline_data :
                /\ timeline_data[k].BreachCount
                     = Cardinality(InMonth(timeline_data[k].BreachYearMonth))
                /\ timeline_data[k].TotalAffected
                     = SumPwnCount(InMonth(timeline_data[k].BreachYearMonth))
          /\ SumField(timeline_data, "BreachCount") = Len(filtered_df)
          /\ SumField(timeline_data, "TotalAffected") = SumPwnCount(DOMAIN filtered_df)
    /\ "yearly_breaches" \in computed =>
          /\ {yearly_breaches[k].Year : k \in DOMAIN yearly_breaches}
                = {YearOf(filtered_df[i].BreachDate) : i \in DOMAIN filtered_df}
          /\ \A j, k \in DOMAIN yearly_breaches :
                j < k => yearly_breaches[j].Year < yearly_breaches[k].Year
          /\ \A k \in DOMAIN yearly_breaches :
                yearly_breaches[k].Count = Cardinality(InYear(yearly_breaches[k].Year))
          /\ SumField(yearly_breaches, "Count") = Len(filtered_df)

C22_Witness ==
    /\ page = "app"
    /\ "timeline_data" \in computed
    /\ nInteractions > 0
    /\ Len(timeline_data) >= 2
    /\ \A k \in DOMAIN timeline_data :
          /\ timeline_data[k].BreachCount >= 2
          /\ timeline_data[k].TotalAffected > 0

\* A record of the file whose AddedDate is missing or is no date.
Defective(r) == r.AddedDate = NaN \/ r.AddedDate \notin DOMAIN iso8601

\* C23: loading is all-or-nothing: when a record of the file has a date
\* that cannot be parsed or lacks a required field, load_data fails with an
\* error and the run has no record table and no class-row table, so no
\* record with a missing value in that field is served.
C23_LoadIsAllOrNothing ==
    (\E i \in DOMAIN source : Defective(source[i])) =>
        /\ error # "none"
        /\ "load_data" \notin computed
        /\ df = <<>>
        /\ data_classes_df = <<>>

\* C24: within one process breaches.json is parsed at most once: the first
\* access loads it, and every later filter interaction and every page reads
\* the cached result without parsing the file again.
C24_ParsedAtMostOnce == parses <= 1

\* The filters of the sidebar, and one of them applied to the table t under
\* the current criteria.
FilterNames == {"date", "verification", "sensitivity", "size", "classes"}

ApplyFilter(w, t) ==
    CASE w = "date" -> date_filter(t, date_range)
      [] w = "verification" ->
           IF HasFilters(page, w) THEN verification_filter(t, verification_status) ELSE t
      [] w = "sensitivity" ->
           IF HasFilters(page, w) THEN sensitivity_filter(t, sensitivity_status) ELSE t
      [] w = "size" -> IF HasFilters(page, w) THEN size_filter(t, breach_size) ELSE t
      [] w = "classes" ->
           IF HasFilters(page, w)
           THEN data_class_filter(t, data_classes_df, selected_data_classes) ELSE t

\* The tables that the filters ws give from t, one for each order in which
\* they can be applied.
RECURSIVE InEveryOrder(_, _)
InEveryOrder(ws, t) ==
    IF ws = {} THEN {t}
    ELSE UNION { InEveryOrder(ws \ {w}, ApplyFilter(w, t)) : w \in ws }

\* C25: the filter predicates commute: the date, verification, sensitivity,
\* size and data-class filters applied to the record table in any order
\* give the view the script computes in its fixed order, same records in
\* the same order.
C25_FiltersCommute ==
    "load_data" \in computed =>
        InEveryOrder(FilterNames, df) = {filtered_df}

C25_Witness ==
    /\ page = "app"
    /\ filtered_df # <<>>
    /\ \E v, w \in FilterNames :
          /\ v # w
          /\ Len(filtered_df) < Len(ApplyFilter(v, df))
          /\ Len(filtered_df) < Len(ApplyFilter(w, df))
          /\ Len(ApplyFilter(v, df)) < Len(df)
          /\ Len(ApplyFilter(w, df)) < Len(df)

\* The class rows of the record named n in the class-row table t.
ClassRowsOf(t, n) == SelectSeq(t, LAMBDA c : c.Name = n)

\* C26: with data classes selected, the filtered class-row view holds every
\* class row of each record of the view, rows of classes that were not
\* selected included, and no row of another record; the rows of the
\* selected classes only pick the records, and the counts per data class
\* are taken over the full rows.
C26_ClassRowsOfPassingRecordsAreComplete ==
    (page = "app" /\ selected_data_classes # {}) =>
        /\ \A i \in DOMAIN filtered_df :
              ClassRowsOf(filtered_data_classes_df, filtered_df[i].Name)
                = ClassRowsOf(data_classes_df, filtered_df[i].Name)
        /\ \A k \in DOMAIN filtered_data_classes_df :
              filtered_data_classes_df[k].Name \in ViewNames
        /\ "data_class_counts" \in computed =>
              \A c \in Range(Column(filtered_data_classes_df, "DataClasses")) \ {NaN} :
                 \E k \in DOMAIN data_class_counts :
                    /\ data_class_counts[k].DataClass = c
                    /\ data_class_counts[k].Count
                         = Cardinality({j \in DOMAIN data_classes_df :
                                           /\ data_classes_df[j].DataClasses = c
                                           /\ data_classes_df[j].Name \in ViewNames})

C26_Witness ==
    /\ page = "app"
    /\ selected_data_classes # {}
    /\ "data_class_counts" \in computed
    /\ Len(filtered_df) < Len(df)
    /\ \E k \in DOMAIN data_class_counts :
          /\ data_class_counts[k].DataClass \notin selected_data_classes
          /\ data_class_counts[k].Count > 0

\* C27: every record the search puts in its result is a record of the
\* current filtered view: a record the sidebar filters exclude never
\* appears, even when one of its data classes matches the term in the
\* unfiltered class-row table.
C27_SearchStaysInsideView ==
    (page = "app" /\ search_term # "") =>
        /\ Range(search_matches) \subseteq ViewNames
        /\ Range(search_results) \subseteq ViewNames

C27_Witness ==
    /\ page = "app"
    /\ search_term # ""
    /\ "data_class_matches" \in computed
    /\ search_matches # <<>>
    /\ \E j \in DOMAIN data_classes_df :
          /\ data_classes_df[j].Name \notin ViewNames
          /\ data_classes_df[j].DataClasses # NaN
          /\ str_contains(data_classes_df[j].DataClasses, search_term)

\* The view the filters other than the date filter give from the full table.
WithoutDateFilter ==
    ApplyFilter("classes",
        ApplyFilter("size", ApplyFilter("sensitivity", ApplyFilter("verification", df))))

\* C28: when the date control holds a number of dates other than two, no
\* date predicate is applied on any page: the other filters work on the
\* full record table, and with them at their defaults every record is kept.
C28_NoDatePredicateWithoutTwoDates ==
    ("load_data" \in computed /\ Len(date_range) # 2) =>
        /\ filtered_df = WithoutDateFilter
        /\ (/\ verification_status = default_verification(page)
            /\ sensitivity_status = default_sensitivity(page)
            /\ breach_size = breach_size_options(page, df)
            /\ selected_data_classes = {})
           => filtered_df = df

C28_Witness ==
    /\ page = "Timeline"
    /\ Len(date_range) = 1
    /\ filtered_df # <<>>
    /\ Len(filtered_df) < Len(df)
    /\ \E i \in DOMAIN filtered_df : CalendarDay(filtered_df[i].BreachDate) < date_range[1]

====
